---- MODULE Spec2Model ----
(***************************************************************************)
(* A model of the forth3 virtual machine:                                  *)
(*   - SpecVM   : AsyncForth::process_line and its inner interpreter       *)
(*                (src/src/vm/async_vm.rs) driven by a host REPL           *)
(*                (src/f3repl/src/main.rs, src/examples/tokio_repl.rs).    *)
(*   - SpecDict : dictionaries, the entry builder, the Entries iterator,   *)
(*                name lookup and fork (src/src/dictionary.rs,             *)
(*                src/src/leakbox.rs).                                     *)
(*   - SpecRef  : the reference count of a shared dictionary under         *)
(*                interleaved clone and drop (src/src/dictionary.rs).      *)
(*   - SpecBump, SpecStr : the bump allocator of a dictionary arena and    *)
(*                the names it stores (src/src/dictionary.rs).             *)
(*   - SpecStack: one fixed-capacity stack.                                *)
(*   - SpecDisk : the two-slot block cache over a fallible driver          *)
(*                (src/src/disk.rs).                                       *)
(***************************************************************************)
EXTENDS Integers, Sequences, FiniteSets, TLC

VARIABLES
    \* ---- the VM (SpecVM) ----
    dstack,      \* Forth::data_stack, bottom first
    rstack,      \* Forth::return_stack
    cstack,      \* Forth::call_stack, frames (entry kinds), bottom first
    input,       \* Forth::input: the tokens not yet consumed
    output,      \* Forth::output: the chunks pushed so far
    pc,          \* where the process_line future stands
    result,      \* what the last process_line call returned
    last,        \* the handler call of the step just taken, if any (history)
    asyncTable,  \* the entries of the dispatcher's AsyncBuiltins::BUILTINS
    sync,        \* the sync VM that is given the same lines (all_runtest)
    \* ---- dictionaries (SpecDict) ----
    dicts,       \* each Dictionary: alloc.cur, tail, refs, parent, entries
    vmDict,      \* each VM's OwnedDict (0: no such VM)
    builder,     \* the EntryBuilder in flight, if any
    op,          \* whether the dictionary operation that ran last was finish
    \* ---- the handles of one shared dictionary (SpecRef) ----
    refs,        \* Dictionary::refs
    hstate,      \* each handle: unused, owned, live, freeing, dropped
    freed,       \* how many times DropDict::drop_dict was invoked
    \* ---- one bump arena (SpecBump, SpecStr) ----
    bump,        \* DictionaryBump: start, end, cur
    zeroed,      \* the addresses bump zero-filled as padding
    handed,      \* the regions <<ptr, size>> returned so far
    stored,      \* the names bump_str wrote into the arena
    bret,        \* the last call: what was asked and what was returned
    calls,       \* the calls made so far
    \* ---- one stack (SpecStack) ----
    stk,         \* Stack: the cells held, bottom first
    sret,        \* the last call: what was asked and what was returned
    \* ---- the block cache (SpecDisk) ----
    caches,      \* Disk::caches: <<active, oldest>>, each a buf and a page
    mem,         \* what each of the two memory buffers holds
    acts,        \* the driver calls made by the last operation, in order
    dret,        \* the last operation: what was asked and what was returned
    recent,      \* the cached pages, the one selected last first (history)
    upd,         \* the pages with an update not yet written (history)
    held         \* the page block or buffer returned last (history)

vmVars == <<dstack, rstack, cstack, input, output, pc, result, last, asyncTable, sync>>
dictVars == <<dicts, vmDict, builder, op>>
refVars == <<refs, hstate, freed>>
bumpVars == <<bump, zeroed, handed, stored, bret, calls>>
stackVars == <<stk, sret>>
diskVars == <<caches, mem, acts, dret, recent, upd, held>>

\* What the actions of one part of the model leave alone.
nonVmVars == <<asyncTable, dictVars, refVars, bumpVars, stackVars, diskVars>>
nonDictVars == <<vmVars, refVars, bumpVars, stackVars, diskVars>>
nonRefVars == <<vmVars, dictVars, bumpVars, stackVars, diskVars>>
nonBumpVars == <<vmVars, dictVars, refVars, stackVars, diskVars>>
nonStackVars == <<vmVars, dictVars, refVars, bumpVars, diskVars>>
nonDiskVars == <<vmVars, dictVars, refVars, bumpVars, stackVars>>

vars == <<dstack, rstack, cstack, input, output, pc, result, last, asyncTable, sync,
          dicts, vmDict, builder, op, refs, hstate, freed,
          bump, zeroed, handed, stored, bret, calls,
          stk, sret, caches, mem, acts, dret, recent, upd, held>>

----------------------------------------------------------------------------
\* Bounds of the model (capacities of the caller-provided buffers).
DataCap == 1
RetCap == 1
CallCap == 2
MaxLine == 2
OutCap == 5

\* Bytes of the prompt "ok.\n".
PromptLen == 4

\* EntryKind
Kinds == {"StaticBuiltin", "RuntimeBuiltin", "Dictionary", "AsyncBuiltin"}

\* What a token of the input line resolves to: a number literal, a word of
\* one of the four entry kinds, or nothing.
Tokens == {"lit", "unknown"} \cup Kinds

\* Error values process_line may return.
Errors == {"Stack", "Output", "UnknownWord", "Builtin"}

\* Output chunks: one byte of user output, or the prompt.
ChunkLen(c) == IF c = "ok" THEN PromptLen ELSE 1

RECURSIVE OutLen(_)
OutLen(out) == IF out = <<>> THEN 0 ELSE ChunkLen(Head(out)) + OutLen(Tail(out))

RECURSIVE CountOk(_)
CountOk(out) ==
    IF out = <<>> THEN 0
    ELSE (IF Head(out) = "ok" THEN 1 ELSE 0) + CountOk(Tail(out))

Pop(s) == SubSeq(s, 1, Len(s) - 1)
Top(s) == s[Len(s)]

\* Sequences over S of length at most n.
SeqsUpTo(S, n) == UNION {[1..k -> S] : k \in 0..n}

----------------------------------------------------------------------------
\* process_line, lines 71-79: the stacks after the error path.
ErrDataStack(ds) == <<>>

\* (mutant) the error path forgets self.vm.return_stack.clear()
ErrReturnStackKept(rs) == rs

ErrReturnStack(rs) == <<>>

\* (mutant) the error path forgets self.vm.call_stack.clear()
ErrCallStackKept(cs) == cs

ErrCallStack(cs) == <<>>

\* (mutant) the error path also clears the input buffer
ErrInputCleared(inp) == <<>>

\* the error path does not touch self.vm.input
ErrInput(inp) == inp

\* process_line returning Err(e) out of any step.
ReturnErr(e) ==
    /\ dstack' = ErrDataStack(dstack)
    /\ rstack' = ErrReturnStack(rstack)
    /\ cstack' = ErrCallStack(cstack)
    /\ input' = ErrInput(input)
    /\ result' = e
    /\ pc' = "idle"
    /\ UNCHANGED <<output>>

\* OutputBuf::push_str: all or nothing.
PushStr(out, c) == IF OutLen(out) + ChunkLen(c) > OutCap THEN out ELSE Append(out, c)
PushStrFails(out, c) == OutLen(out) + ChunkLen(c) > OutCap

\* (mutant) Done breaks out with Ok without pushing the prompt
LineDoneNoPrompt ==
    /\ result' = "Ok"
    /\ pc' = "idle"
    /\ UNCHANGED <<dstack, rstack, cstack, input, output>>

\* process_line, lines 61-64: ProcessAction::Done.
LineDone ==
    IF PushStrFails(output, "ok")
    THEN ReturnErr("Output")
    ELSE /\ output' = PushStr(output, "ok")
         /\ result' = "Ok"
         /\ pc' = "idle"
         /\ UNCHANGED <<dstack, rstack, cstack, input>>

\* The error of a handler whose effect cannot be carried out.
EffectError(eff) ==
    IF eff = "emit" THEN "Output" ELSE IF eff = "advance" THEN "Builtin" ELSE "Stack"

----------------------------------------------------------------------------
\* The sync VM (Forth::process_line and its inner interpreter), as a
\* function from state to state.  s: the VM's stacks and buffers, where its
\* process_line stands (pc) and what it returned (result).

\* The sync VM is not run (the lines may name async builtins, which it does
\* not have).
NoSync ==
    [on |-> FALSE, dstack |-> <<>>, rstack |-> <<>>, cstack |-> <<>>,
     input |-> <<>>, output |-> <<>>, pc |-> "idle", result |-> "none"]

\* The sync VM as constructed.
SyncFresh == [NoSync EXCEPT !.on = TRUE]

\* On any error process_line clears all three stacks and surfaces the
\* error; the input buffer is not cleared.
SyncReturnErr(s, e) ==
    [s EXCEPT !.dstack = <<>>, !.rstack = <<>>, !.cstack = <<>>,
              !.result = e, !.pc = "idle"]

\* Input exhausted: on success the prompt is appended.
SyncLineDone(s) ==
    IF OutLen(s.output) + PromptLen > OutCap THEN SyncReturnErr(s, "Output")
    ELSE [s EXCEPT !.output = Append(@, "ok"), !.result = "Ok", !.pc = "idle"]

\* The tokenizer step: a number is pushed, a word is entered.
SyncStart(s) ==
    IF s.input = <<>> THEN SyncLineDone(s)
    ELSE LET tok == Head(s.input) IN
         CASE tok = "unknown" -> SyncReturnErr(s, "UnknownWord")
           [] tok = "lit" ->
                 IF Len(s.dstack) >= DataCap THEN SyncReturnErr(s, "Stack")
                 ELSE [s EXCEPT !.dstack = Append(@, 0), !.input = Tail(@)]
           [] OTHER ->
                 IF Len(s.cstack) >= CallCap THEN SyncReturnErr(s, "Stack")
                 ELSE [s EXCEPT !.cstack = Append(@, tok), !.input = Tail(@),
                                !.pc = "exec"]

\* Whether the handler's effect fails on the sync VM.
SyncFails(s, eff) ==
    CASE eff = "dpush" -> Len(s.dstack) >= DataCap
      [] eff = "dpop" -> s.dstack = <<>>
      [] eff = "rpush" -> Len(s.rstack) >= RetCap
      [] eff = "rpop" -> s.rstack = <<>>
      [] eff \in Kinds -> Len(s.cstack) >= CallCap
      [] eff = "cpop" -> s.cstack = <<>>
      [] eff = "emit" -> OutLen(s.output) + 1 > OutCap
      [] eff = "advance" -> s.input = <<>>
      [] OTHER -> FALSE

\* The sync VM after the handler's effect.
SyncEffect(s, eff) ==
    CASE eff = "dpush" -> [s EXCEPT !.dstack = Append(@, 0)]
      [] eff = "dpop" -> [s EXCEPT !.dstack = Pop(@)]
      [] eff = "rpush" -> [s EXCEPT !.rstack = Append(@, 0)]
      [] eff = "rpop" -> [s EXCEPT !.rstack = Pop(@)]
      [] eff \in Kinds -> [s EXCEPT !.cstack = Append(@, eff)]
      [] eff = "cpop" -> [s EXCEPT !.cstack = Pop(@)]
      [] eff = "emit" -> [s EXCEPT !.output = Append(@, "u")]
      [] eff = "advance" -> [s EXCEPT !.input = Tail(@)]
      [] OTHER -> s

\* One step of the inner interpreter: an empty call stack: done; else the
\* top frame's function is called with &mut vm; on success the frame is
\* popped; on PendingCallAgain it is not; an error bubbles upward.
SyncStep(s, eff, res) ==
    IF s.cstack = <<>> THEN [s EXCEPT !.pc = "loop"]
    ELSE IF res \notin {"Ok", "PendingCallAgain"} THEN SyncReturnErr(s, res)
    ELSE IF SyncFails(s, eff) THEN SyncReturnErr(s, EffectError(eff))
    ELSE LET t == SyncEffect(s, eff) IN
         IF res = "Ok" /\ t.cstack # <<>> THEN [t EXCEPT !.cstack = Pop(@)] ELSE t

\* The sync VM, where it is run, is taken to f.
Beside(f) == IF sync.on THEN f ELSE sync

\* No handler was called in the step; phase tells whether the host has reset
\* the VM after a cancellation ("cancel") and then called process_line on a
\* valid line ("valid").
Quiet(phase) ==
    [via |-> "none", name |-> "none", res |-> "none", delta |-> 0, phase |-> phase]

\* A handler was called: through the entry's func or through the
\* dispatcher, which was given name, with the call stack depth0 deep; it
\* left the call stack mid deep (delta: mid - depth0) and returned res (an
\* error is kept as "Err").
Called(via, name, res, depth0, mid) ==
    [via |-> via, name |-> name,
     res |-> IF res \in {"Ok", "PendingCallAgain", "pending"} THEN res ELSE "Err",
     delta |-> mid - depth0, phase |-> last.phase]

\* Forth::start_processing_line, called at line 60: look at the current
\* word; none: Done; a literal: push it, Continue; a word: push its frame,
\* Execute.
StartProcessingLine ==
    /\ UNCHANGED nonVmVars
    /\ pc = "loop"
    /\ last' = Quiet(last.phase)
    /\ sync' = Beside(SyncStart(sync))
    /\ IF input = <<>> THEN LineDone
       ELSE LET tok == Head(input) IN
            CASE tok = "unknown" -> ReturnErr("UnknownWord")
              [] tok = "lit" ->
                    IF Len(dstack) >= DataCap THEN ReturnErr("Stack")
                    ELSE /\ dstack' = Append(dstack, 0)
                         /\ input' = Tail(input)
                         /\ UNCHANGED <<rstack, cstack, output, pc, result>>
              [] OTHER ->
                    IF Len(cstack) >= CallCap THEN ReturnErr("Stack")
                    ELSE /\ cstack' = Append(cstack, tok)
                         /\ input' = Tail(input)
                         /\ pc' = "exec"
                         /\ UNCHANGED <<dstack, rstack, output, result>>

\* The kind of the entries that AsyncForth::new links from
\* D::BUILTINS (async_vm.rs, line 24): no other entry is of this kind.
AsyncKinds == {"AsyncBuiltin"}

\* The dispatcher tables told apart: none (BUILTINS = &[], as the test
\* dispatcher of testutil has it) and one async builtin.
Tables == {{}, AsyncKinds}

\* The kinds of the entries a handler enters: one that is called through
\* its func and the one that goes through the dispatcher.
PushKinds == {"Dictionary", "AsyncBuiltin"}

\* What a handler called with &mut vm may do before it returns.
\* An effect that is an entry kind pushes a call-stack frame of that kind.
Effects == {"none", "dpush", "dpop", "rpush", "rpop", "cpop", "emit", "advance"} \cup PushKinds

\* An effect the handler cannot carry out makes it return an error.
EffectFails(eff) ==
    CASE eff = "dpush" -> Len(dstack) >= DataCap
      [] eff = "dpop" -> dstack = <<>>
      [] eff = "rpush" -> Len(rstack) >= RetCap
      [] eff = "rpop" -> rstack = <<>>
      [] eff \in Kinds -> Len(cstack) >= CallCap
      [] eff = "cpop" -> cstack = <<>>
      [] eff = "emit" -> PushStrFails(output, "u")
      [] eff = "advance" -> input = <<>>
      [] OTHER -> FALSE

\* The stacks and buffers after the handler's effect.
EffData(eff) ==
    CASE eff = "dpush" -> Append(dstack, 0)
      [] eff = "dpop" -> Pop(dstack)
      [] OTHER -> dstack

EffReturn(eff) ==
    CASE eff = "rpush" -> Append(rstack, 0)
      [] eff = "rpop" -> Pop(rstack)
      [] OTHER -> rstack

EffCall(eff) ==
    CASE eff \in Kinds -> Append(cstack, eff)
      [] eff = "cpop" -> Pop(cstack)
      [] OTHER -> cstack

\* (mutant) the frame is popped whatever the handler returned
AfterHandlerPops(cs1, res) == IF cs1 = <<>> THEN cs1 ELSE Pop(cs1)

\* async_pig, lines 102-110: the call stack after the handler returned res,
\* having left it as cs1.  Ok pops (the result of the pop is ignored);
\* PendingCallAgain does not.
AfterHandler(cs1, res) ==
    IF res = "Ok" THEN (IF cs1 = <<>> THEN cs1 ELSE Pop(cs1)) ELSE cs1

\* (mutant) a step that ran a handler reports Done
PcAfterHandlerDone == "loop"

\* async_pig, line 112: a step that ran a handler reports NotDone, so the
\* Execute loop of process_line (line 67) calls async_pig again.
PcAfterHandler == "exec"

\* (mutant) the sentinel is an error like any other
IsSentinelNever(res) == FALSE

\* async_pig, line 106: Err(Error::PendingCallAgain)
IsSentinel(res) == res = "PendingCallAgain"

\* What the handler that ran eff and meant to return res returns.
HandlerResult(eff, res) ==
    IF res = "Ok" \/ IsSentinel(res)
    THEN (IF EffectFails(eff) THEN EffectError(eff) ELSE res)
    ELSE res

\* The depth of the call stack as the handler leaves it.
HandlerDepth(eff, res) ==
    IF HandlerResult(eff, res) = res /\ (res = "Ok" \/ IsSentinel(res))
    THEN Len(EffCall(eff)) ELSE Len(cstack)

\* async_pig, lines 102-112, for a handler that ran eff and returned res.
HandlerReturns(eff, res) ==
    IF res # "Ok" /\ ~IsSentinel(res) THEN ReturnErr(res)
    ELSE IF EffectFails(eff) THEN ReturnErr(EffectError(eff))
    ELSE /\ dstack' = EffData(eff)
         /\ rstack' = EffReturn(eff)
         /\ cstack' = AfterHandler(EffCall(eff), res)
         /\ output' = (IF eff = "emit" THEN PushStr(output, "u") ELSE output)
         /\ input' = (IF eff = "advance" THEN Tail(input) ELSE input)
         /\ pc' = PcAfterHandler
         /\ UNCHANGED <<result>>

\* What a handler may return: Ok, the sentinel, or an error of its own.
HandlerResults == {"Ok", "PendingCallAgain", "Builtin"}

\* The effects told apart before each result: what a handler did before it
\* returned an error of its own is cleared or left as the error path has it.
EffectsBefore(res) ==
    IF res = "Ok" \/ IsSentinel(res) THEN Effects \ (AsyncKinds \ asyncTable) ELSE {"none"}

\* async_pig, lines 86-90: an empty call stack ends the Execute loop.
PigDone ==
    /\ UNCHANGED nonVmVars
    /\ pc = "exec"
    /\ cstack = <<>>
    /\ pc' = "loop"
    /\ last' = Quiet(last.phase)
    /\ sync' = Beside(SyncStep(sync, "none", "Ok"))
    /\ UNCHANGED <<dstack, rstack, cstack, input, output, result>>

\* async_pig, lines 92-96: a synchronous handler runs to its result.
PigSync ==
    /\ UNCHANGED nonVmVars
    /\ pc = "exec"
    /\ cstack # <<>>
    /\ Top(cstack) # "AsyncBuiltin"
    /\ \E res \in HandlerResults : \E eff \in EffectsBefore(res) :
          /\ HandlerReturns(eff, res)
          /\ last' = Called("func", "none", HandlerResult(eff, res),
                            Len(cstack), HandlerDepth(eff, res))
          /\ sync' = Beside(SyncStep(sync, eff, res))

\* (mutant) the dispatcher is given the name of the bottom frame's entry
DispatchNameBottom(cs) == cs[1]

\* async_pig, line 98: &top.eh.as_ref().name (an entry stands for its name)
DispatchName(cs) == Top(cs)

\* async_pig, lines 97-99: the dispatcher's future is awaited.
PigDispatch ==
    /\ UNCHANGED nonVmVars
    /\ pc = "exec"
    /\ cstack # <<>>
    /\ Top(cstack) = "AsyncBuiltin"
    /\ pc' = "await"
    /\ last' = Called("dispatch", DispatchName(cstack), "pending", Len(cstack), Len(cstack))
    /\ sync' = sync
    /\ UNCHANGED <<dstack, rstack, cstack, input, output, result>>

\* async_pig, lines 98-110: the awaited future resolves.
PigResume ==
    /\ UNCHANGED nonVmVars
    /\ pc = "await"
    /\ \E res \in HandlerResults : \E eff \in EffectsBefore(res) :
          /\ HandlerReturns(eff, res)
          /\ last' = Called("dispatch", "none", HandlerResult(eff, res),
                            Len(cstack), HandlerDepth(eff, res))
          /\ sync' = sync

\* (mutant) dropping the future runs the error path's call_stack.clear()
DroppedCallStackCleared(cs) == <<>>

\* process_line, lines 66-79: the future dropped at the await of line 67
\* runs neither the rest of async_pig nor the error path; the call stack
\* stays as it was at the suspension.
DroppedCallStack(cs) == cs

\* The process_line future is dropped while the async builtin is suspended:
\* nothing of process_line runs any more.
DropFuture ==
    /\ UNCHANGED nonVmVars
    /\ pc = "await"
    /\ pc' = "cancelled"
    /\ result' = "Cancelled"
    /\ last' = Quiet(last.phase)
    /\ sync' = sync
    /\ cstack' = DroppedCallStack(cstack)
    /\ UNCHANGED <<dstack, rstack, input, output>>

----------------------------------------------------------------------------
\* The host REPL.

\* input.fill(&inp): the line read from the terminal becomes the input.
\* The hosts fill at the top of their loop, after output.clear(), and call
\* process_line next.
Fill ==
    /\ UNCHANGED nonVmVars
    /\ pc = "idle"
    /\ result = "none"
    /\ output = <<>>
    /\ \E line \in SeqsUpTo(Tokens \ (AsyncKinds \ asyncTable), MaxLine) :
          /\ input' = line
          /\ sync' = Beside([sync EXCEPT !.input = line, !.pc = "filled"])
    /\ pc' = "filled"
    /\ last' = Quiet(last.phase)
    /\ UNCHANGED <<dstack, rstack, cstack, output, result>>

\* Lines that a freshly constructed VM processes to Ok: nothing, or one
\* number.
ValidLines == {<<>>, <<"lit">>}

\* forth.process_line() is called.
CallProcessLine ==
    /\ UNCHANGED nonVmVars
    /\ pc = "filled"
    /\ pc' = "loop"
    /\ result' = "none"
    /\ sync' = Beside([sync EXCEPT !.pc = "loop", !.result = "none"])
    /\ last' = Quiet(IF last.phase = "cancel" /\ input \in ValidLines THEN "valid" ELSE "none")
    /\ UNCHANGED <<dstack, rstack, cstack, input, output>>

\* After an error the REPL prints the unprocessed tokens:
\* while let Some(tok) = input.cur_word() { ...; input.advance(); }
DrainToken ==
    /\ UNCHANGED nonVmVars
    /\ pc = "idle"
    /\ result \in Errors
    /\ input # <<>>
    /\ input' = Tail(input)
    /\ last' = Quiet(last.phase)
    /\ sync' = Beside([sync EXCEPT !.input = Tail(@)])
    /\ UNCHANGED <<dstack, rstack, cstack, output, pc, result>>

\* After a cancellation the host resets the VM before it uses it again:
\* it clears the three stacks and the input.
HostReset ==
    /\ UNCHANGED nonVmVars
    /\ pc = "cancelled"
    /\ dstack' = <<>>
    /\ rstack' = <<>>
    /\ cstack' = <<>>
    /\ input' = <<>>
    /\ pc' = "idle"
    /\ last' = Quiet("cancel")
    /\ sync' = sync
    /\ UNCHANGED <<output, result>>

\* forth.output.clear(), at the end of the host's loop body: the result of
\* the call has been looked at and is gone.
ClearOutput ==
    /\ UNCHANGED nonVmVars
    /\ pc = "idle"
    /\ result # "none"
    /\ output' = <<>>
    /\ result' = "none"
    /\ last' = Quiet(last.phase)
    /\ sync' = Beside([sync EXCEPT !.output = <<>>, !.result = "none"])
    /\ UNCHANGED <<dstack, rstack, cstack, input, pc>>

\* A VM as constructed: empty stacks and buffers, no call in progress.
VmConstructed(table) ==
    /\ asyncTable = table
    /\ sync = (IF table = {} THEN SyncFresh ELSE NoSync)
    /\ dstack = <<>>
    /\ rstack = <<>>
    /\ cstack = <<>>
    /\ input = <<>>
    /\ output = <<>>
    /\ pc = "idle"
    /\ result = "none"
    /\ last = Quiet("none")

\* The VM variables where they play no part.
VmFresh == VmConstructed(AsyncKinds)

\* The dictionary variables where they play no part.
DictUnused ==
    /\ dicts = <<>>
    /\ vmDict = <<>>
    /\ builder = <<>>
    /\ op = "none"

\* The handle variables where they play no part.
RefUnused ==
    /\ refs = 0
    /\ hstate = <<>>
    /\ freed = 0

\* The arena variables where they play no part.
BumpUnused ==
    /\ bump = <<>>
    /\ zeroed = {}
    /\ handed = {}
    /\ stored = {}
    /\ bret = <<>>
    /\ calls = 0

\* The stack variables where they play no part.
StackUnused ==
    /\ stk = <<>>
    /\ sret = <<>>

\* The block cache variables where they play no part.
DiskUnused ==
    /\ caches = <<>>
    /\ mem = <<>>
    /\ acts = <<>>
    /\ dret = <<>>
    /\ recent = <<>>
    /\ upd = {}
    /\ held = 0

InitVM ==
    /\ \E table \in Tables : VmConstructed(table)
    /\ DictUnused /\ RefUnused /\ BumpUnused /\ StackUnused /\ DiskUnused

NextVM ==
    \/ Fill
    \/ CallProcessLine
    \/ DrainToken
    \/ ClearOutput
    \/ StartProcessingLine
    \/ PigDone
    \/ PigSync
    \/ PigDispatch
    \/ PigResume
    \/ DropFuture
    \/ HostReset

SpecVM == InitVM /\ [][NextVM]_vars

----------------------------------------------------------------------------
\* Properties of process_line (checked under SpecVM).

\* The step in which process_line returns.
ReturnsOk == pc # "idle" /\ pc' = "idle" /\ result' = "Ok"
ReturnsErr == pc # "idle" /\ pc' = "idle" /\ result' \in Errors

\* C1: whenever process_line has returned an error, whatever step raised
\* it, the data stack, the return stack and the call stack have depth 0.
C1_ErrorClearsStacks ==
    (pc = "idle" /\ result \in Errors) =>
        (Len(dstack) = 0 /\ Len(rstack) = 0 /\ Len(cstack) = 0)

\* C1 witnesses: an error was returned by the push of a literal onto a full
\* data stack (the stack held DataCap cells when the error was raised).
C1_Witness ==
    /\ pc = "idle" /\ result = "Stack"
    /\ input # <<>> /\ Head(input) = "lit"
    /\ output # <<>>
    /\ dstack = <<>>

\* C2 (as stated): after every process_line call that returns Ok, the call
\* stack depth is 0 and the return stack depth is 0.
C2_OkStacksEmpty ==
    (pc = "idle" /\ result = "Ok") => (Len(cstack) = 0 /\ Len(rstack) = 0)

\* C2 (amended): after a process_line call that returns Ok (the host having
\* reset the VM after any cancelled call), the call stack depth is 0; the
\* return stack is not cleared on success.
C2_OkCallStackEmpty ==
    (pc = "idle" /\ result = "Ok") => Len(cstack) = 0

\* C2 witness: a line whose word ran returned Ok and left a cell on the
\* return stack.
C2_Witness ==
    /\ pc = "idle" /\ result = "Ok"
    /\ Len(rstack) = 1 /\ Len(cstack) = 0

\* C3: process_line returns Ok only with the input exhausted and in the
\* step that appends the prompt to the output; no other step of a call
\* appends a prompt, so an Ok line holds exactly one prompt, after all of
\* its output, and a line that returns an error holds none.
C3_PromptOnce ==
    [][ /\ ReturnsOk =>
            (input = <<>> /\ input' = <<>> /\ output' = Append(output, "ok"))
        /\ (pc # "idle" /\ ~ReturnsOk) => CountOk(output') = CountOk(output)
      ]_vars

\* C3 witness: an Ok line whose words produced output before the prompt.
C3_Witness ==
    /\ pc = "idle" /\ result = "Ok" /\ input = <<>>
    /\ Len(output) >= 2
    /\ output[Len(output) - 1] = "u"
    /\ Top(output) = "ok"
    /\ CountOk(output) = 1

\* C4: the error path leaves the input buffer untouched: the tokens not yet
\* consumed when the error occurred are still there, in order.
C4_ErrorKeepsInput == [][ReturnsErr => input' = input]_vars

\* C4 witness: an error was returned and the token that failed and the one
\* after it are still in the input buffer.
C4_Witness ==
    /\ pc = "idle" /\ result = "UnknownWord"
    /\ input = <<"unknown", "lit">>

\* The step ran a handler to its result res.
Ran(res) == last'.via # "none" /\ last'.res = res

\* C21: whatever the native and the async builtins return, process_line
\* never returns PendingCallAgain to its caller, and a step whose handler
\* returned PendingCallAgain does not end the call.
C21_SentinelNotSurfaced ==
    /\ [](result # "PendingCallAgain")
    /\ [][Ran("PendingCallAgain") => (pc' = "exec" /\ result' = result)]_vars

\* C21 witness: an async builtin's future resolved to PendingCallAgain and
\* the call goes on.
C21_Witness ==
    /\ last.via = "dispatch" /\ last.res = "PendingCallAgain"
    /\ pc = "exec" /\ result = "none"

C23_DispatchOnlyAsync ==
    /\ [](pc = "await" =>
            /\ cstack # <<>> /\ Top(cstack) = "AsyncBuiltin"
            /\ last.via = "dispatch" /\ last.name = Top(cstack)
            /\ asyncTable # {})
    /\ [][ /\ (last'.via = "dispatch") => (Top(cstack) = "AsyncBuiltin")
           /\ (last'.via = "func") => (Top(cstack) \in Kinds \ {"AsyncBuiltin"})
           /\ (pc = "exec" /\ cstack # <<>> /\ Top(cstack) = "AsyncBuiltin")
                 => (pc' = "await")
         ]_vars

\* C23 witness: the dispatcher was called for an async builtin whose frame
\* lies above the frame of a dictionary word.
C23_Witness ==
    /\ pc = "await"
    /\ cstack = <<"Dictionary", "AsyncBuiltin">>
    /\ last.name = "AsyncBuiltin"

\* C25: the step that drops the process_line future while an async builtin
\* is suspended leaves the three stacks, the input and the output as they
\* were at the suspension, the async builtin's frame on top of the call
\* stack; and once the host has cleared the three stacks and the input, a
\* process_line call on a valid line returns Ok.
C25_CancelThenResume ==
    /\ [][(pc = "await" /\ pc' = "cancelled") =>
            /\ <<dstack', rstack', cstack', input', output'>>
                  = <<dstack, rstack, cstack, input, output>>
            /\ cstack' # <<>> /\ Top(cstack') = "AsyncBuiltin"]_vars
    /\ []((last.phase = "valid" /\ pc = "idle" /\ result # "none") => result = "Ok")

\* C25 witness: a call was cancelled, the host reset the VM, and the next
\* call pushed the number of its line and returned Ok.
C25_Witness ==
    /\ last.phase = "valid" /\ pc = "idle" /\ result = "Ok"
    /\ dstack = <<0>> /\ cstack = <<>> /\ Top(output) = "ok"

\* The async VM as the sync VM's state.
AsyncState ==
    [on |-> TRUE, dstack |-> dstack, rstack |-> rstack, cstack |-> cstack,
     input |-> input, output |-> output, pc |-> pc, result |-> result]

C24_WitnessErr ==
    /\ sync.on /\ pc = "idle" /\ result = "Builtin" /\ input # <<>>

----------------------------------------------------------------------------
\* Dictionaries (src/src/dictionary.rs).

\* Bounds: the forks performed, the entry slots allocated in all, the bytes of a
\* dictionary arena, the cells
\* written into one entry, the bits of the reference count.
MaxForks == 1
MaxEntries == 2
ArenaCap == 84
MaxParams == 1
RefBits == 3

\* Bound: the bits of a pointer (usize) in the model.
AddrBits == 14

\* size_of::<usize>(), and the words of a DictionaryEntry (hdr: 3, func, link).
WordSize == 8
EntryWords == 5
EntrySize == EntryWords * WordSize

\* Every fork takes two fresh dictionaries (my_new_dict, new_dict).
DictIds == 1..(1 + 2 * MaxForks)
VmIds == 1..(1 + MaxForks)

Names == {"a", "b"}

Null == 0

\* vmDict of a VM that was dropped.
Dropped == -1
NoBuilder == <<>>

\* Dictionary::MUTABLE = usize::MAX, at the width of the model.
MUTABLE == (2 ^ RefBits) - 1

\* Each dictionary's arena is an allocation of its own (alloc_dict), aligned
\* as the allocator aligns it.
ArenaStart(d) == d * 1024
ArenaEnd(d) == ArenaStart(d) + ArenaCap

\* The dictionary an entry pointer points into.
DictOf(ptr) == ptr \div 1024

\* (mutant) no padding is skipped
AlignOffsetNone(ptr, align) == 0

\* ptr.align_offset(align)
AlignOffset(ptr, align) == (align - (ptr % align)) % align

\* ptr.wrapping_add(n) on a pointer of AddrBits bits
WrappingAdd(ptr, n) == (ptr + n) % (2 ^ AddrBits)

\* DictionaryBump::bump::<T>(): the aligned pointer and the new cursor, or
\* OutOfMemory with the cursor where it was.
Bump(cur, end, align, size) ==
    LET align_cur == WrappingAdd(cur, AlignOffset(cur, align))
        new_cur == WrappingAdd(align_cur, size)
    IN  IF new_cur > end
        THEN [ok |-> FALSE, ptr |-> Null, cur |-> cur]
        ELSE [ok |-> TRUE, ptr |-> align_cur, cur |-> new_cur]

\* DictionaryBump::bump_u8s(n)
BumpU8s(cur, end, n) ==
    LET req == WrappingAdd(cur, n) IN
    IF n = 0 \/ req > end
    THEN [ok |-> FALSE, ptr |-> Null, cur |-> cur]
    ELSE [ok |-> TRUE, ptr |-> cur, cur |-> req]

\* Dictionary::new
NewDict(d, par) ==
    [live |-> TRUE, cur |-> ArenaStart(d), tail |-> Null, refs |-> MUTABLE,
     parent |-> par, mem |-> <<>>]

NoDict ==
    [live |-> FALSE, cur |-> 0, tail |-> Null, refs |-> 0, parent |-> 0, mem |-> <<>>]

\* The entry written at ptr: DictionaryEntry { hdr: { name, kind, len }, link }.
Entry(name, kind, len, link) == [name |-> name, kind |-> kind, len |-> len, link |-> link]

\* (mutant) the new entry is linked to itself
LinkEntrySelf(dict, base, name, kind, len) ==
    [dict EXCEPT !.mem = (base :> Entry(name, kind, len, base)) @@ dict.mem,
                 !.tail = base]

\* The dictionary after an entry is written at base and linked:
\* link: self.tail.take(), then self.tail = Some(base).
LinkEntry(dict, base, name, kind, len) ==
    [dict EXCEPT !.mem = (base :> Entry(name, kind, len, dict.tail)) @@ dict.mem,
                 !.tail = base]

\* (mutant) a shared handle gives mutable access too
CanMutateShared(d) == TRUE

\* Who may mutate: a dictionary is mutated through OwnedDict::deref_mut only
\* (SharedDict implements Deref alone); the VM's dict is its OwnedDict.
CanMutate(d) == \E v \in VmIds : vmDict[v] = d

\* The entry slots taken from the arenas so far, over all dictionaries.
RECURSIVE CountSlots(_)
CountSlots(ds) ==
    IF ds = {} THEN 0
    ELSE LET d == CHOOSE x \in ds : TRUE IN
         (IF dicts[d] # NoDict THEN (dicts[d].cur - ArenaStart(d)) \div EntrySize ELSE 0)
            + CountSlots(ds \ {d})

RoomForEntry == CountSlots(DictIds) < MaxEntries

\* The dictionaries not allocated yet (a deallocated one is not reused).
UnusedDicts == {d \in DictIds : dicts[d] = NoDict}
UnusedVms == {v \in VmIds : vmDict[v] = 0}

\* Dictionary::add_bi_fastr
AddBiFastr(d, name) ==
    /\ UNCHANGED nonDictVars
    /\ builder = NoBuilder
    /\ RoomForEntry
    /\ dicts[d].live
    /\ CanMutate(d)
    /\ LET b == Bump(dicts[d].cur, ArenaEnd(d), WordSize, EntrySize) IN
          /\ b.ok
          /\ dicts' = [dicts EXCEPT ![d] =
                LinkEntry([dicts[d] EXCEPT !.cur = b.cur], b.ptr, name, "RuntimeBuiltin", 0)]
    /\ op' = "other"
    /\ UNCHANGED <<vmDict, builder>>

\* (mutant) build_entry links the reserved slot at once
BuildEntryLinked(d) ==
    /\ UNCHANGED nonDictVars
    /\ builder = NoBuilder
    /\ RoomForEntry
    /\ dicts[d].live
    /\ CanMutate(d)
    /\ LET b == Bump(dicts[d].cur, ArenaEnd(d), WordSize, EntrySize) IN
          /\ b.ok
          /\ \E name \in Names :
                dicts' = [dicts EXCEPT ![d] =
                    LinkEntry([dicts[d] EXCEPT !.cur = b.cur], b.ptr, name, "Dictionary", 0)]
          /\ builder' = [dict |-> d, base |-> b.ptr, len |-> 0, kind |-> "Dictionary"]
    /\ op' = "other"
    /\ UNCHANGED vmDict

\* Dictionary::build_entry
BuildEntry(d) ==
    /\ UNCHANGED nonDictVars
    /\ builder = NoBuilder
    /\ RoomForEntry
    /\ dicts[d].live
    /\ CanMutate(d)
    /\ LET b == Bump(dicts[d].cur, ArenaEnd(d), WordSize, EntrySize) IN
          /\ b.ok
          /\ dicts' = [dicts EXCEPT ![d].cur = b.cur]
          /\ builder' = [dict |-> d, base |-> b.ptr, len |-> 0, kind |-> "Dictionary"]
    /\ op' = "other"
    /\ UNCHANGED vmDict

\* EntryBuilder::write_word: on OutOfMemory the builder, taken by value, is
\* dropped.
WriteWord ==
    /\ UNCHANGED nonDictVars
    /\ builder # NoBuilder
    /\ LET d == builder.dict
           b == Bump(dicts[d].cur, ArenaEnd(d), WordSize, WordSize)
       IN  IF b.ok /\ builder.len < MaxParams
           THEN /\ dicts' = [dicts EXCEPT ![d].cur = b.cur]
                /\ builder' = [builder EXCEPT !.len = @ + 1]
                /\ op' = "other"
           ELSE /\ ~b.ok
                /\ builder' = NoBuilder
                /\ op' = "other"
                /\ UNCHANGED dicts
    /\ UNCHANGED vmDict

\* EntryBuilder::finish
Finish(name) ==
    /\ UNCHANGED nonDictVars
    /\ builder # NoBuilder
    /\ LET d == builder.dict IN
          dicts' = [dicts EXCEPT ![d] =
                LinkEntry(dicts[d], builder.base, name, builder.kind, builder.len)]
    /\ builder' = NoBuilder
    /\ op' = "finish"
    /\ UNCHANGED vmDict

\* The builder is dropped without finish.
Abandon ==
    /\ UNCHANGED nonDictVars
    /\ builder # NoBuilder
    /\ builder' = NoBuilder
    /\ op' = "other"
    /\ UNCHANGED <<dicts, vmDict>>

\* OwnedDict::into_shared: the count goes from MUTABLE to 1.
IntoShared(dict) == [dict EXCEPT !.refs = 1]

\* SharedDict::clone: fetch_add(1)
CloneShared(dict) == [dict EXCEPT !.refs = (@ + 1) % (2 ^ RefBits)]

\* Forth::fork, called by LBForth::fork_with_params with two fresh
\* dictionaries: the VM's dictionary becomes shared; the VM goes on with
\* my_new_dict and the child gets new_dict, each with the shared dictionary
\* as parent.
Fork(v) ==
    /\ UNCHANGED nonDictVars
    /\ builder = NoBuilder
    /\ vmDict[v] \in DictIds
    /\ \E c \in UnusedVms, d1 \in UnusedDicts, d2 \in UnusedDicts :
          /\ c = CHOOSE x \in UnusedVms : \A y \in UnusedVms : x <= y
          /\ d1 = CHOOSE x \in UnusedDicts : \A y \in UnusedDicts : x <= y
          /\ d2 = d1 + 1
          /\ LET old == vmDict[v] IN
               /\ dicts[old].refs = MUTABLE
               /\ dicts' = [dicts EXCEPT ![old] = CloneShared(IntoShared(@)),
                                         ![d1] = NewDict(d1, old),
                                         ![d2] = NewDict(d2, old)]
               /\ vmDict' = [vmDict EXCEPT ![v] = d1, ![c] = d2]
    /\ op' = "other"
    /\ UNCHANGED builder

\* LeakBoxDict::drop_dict: the allocation is returned to the allocator; no
\* destructor of the Dictionary's fields runs.
DropDictHook(dict) == [dict EXCEPT !.live = FALSE]

\* The VM v is dropped, and with it its OwnedDict: OwnedDict::drop calls
\* D::drop_dict on its dictionary and nothing else.
DropVm(v) ==
    /\ UNCHANGED nonDictVars
    /\ builder = NoBuilder
    /\ vmDict[v] \in DictIds
    /\ dicts' = [dicts EXCEPT ![vmDict[v]] = DropDictHook(@)]
    /\ vmDict' = [vmDict EXCEPT ![v] = Dropped]
    /\ op' = "other"
    /\ UNCHANGED builder

\* The entry a pointer points to (entry.as_ref()).
Deref(ptr) == dicts[DictOf(ptr)].mem[ptr]

\* Entries::next, unrolled: the pointers the iterator yields from the state
\* (next, dict).  Nothing is yielded once next is None; after an entry whose
\* link is None the iterator moves to the parent's tail.
RECURSIVE EntriesFrom(_, _)
EntriesFrom(next, d) ==
    IF next = Null THEN <<>>
    ELSE LET entry == Deref(next) IN
         IF entry.link # Null THEN <<next>> \o EntriesFrom(entry.link, d)
         ELSE IF dicts[d].parent # 0
              THEN <<next>> \o EntriesFrom(dicts[dicts[d].parent].tail, dicts[d].parent)
              ELSE <<next>>

\* Dictionary::entries
Entries(d) == EntriesFrom(dicts[d].tail, d)

\* The static table of synchronous built-ins and the dispatcher's table of
\* async built-ins the VMs are constructed with.
StaticBuiltins == {"a", "b"}
AsyncBuiltins == {"b"}

\* The first pointer of a sequence whose entry has the name, or Null.
RECURSIVE FirstNamed(_, _)
FirstNamed(ptrs, name) ==
    IF ptrs = <<>> THEN Null
    ELSE IF Deref(Head(ptrs)).name = name THEN Head(ptrs)
    ELSE FirstNamed(Tail(ptrs), name)

\* Forth::lookup: the dictionary (through Dictionary::entries), then the
\* async built-ins, then the static built-ins.
Lookup(v, name) ==
    LET hit == FirstNamed(Entries(vmDict[v]), name) IN
    IF hit # Null THEN <<"dict", hit>>
    ELSE IF name \in AsyncBuiltins THEN <<"async", name>>
    ELSE IF name \in StaticBuiltins THEN <<"static", name>>
    ELSE <<"none", name>>

InitDict ==
    /\ VmFresh
    /\ RefUnused
    /\ BumpUnused
    /\ StackUnused
    /\ DiskUnused
    /\ dicts = [d \in DictIds |-> IF d = 1 THEN NewDict(1, 0) ELSE NoDict]
    /\ vmDict = [v \in VmIds |-> IF v = 1 THEN 1 ELSE 0]
    /\ builder = NoBuilder
    /\ op = "other"

NextDict ==
    \/ \E d \in DictIds, name \in Names : AddBiFastr(d, name)
    \/ \E d \in DictIds : BuildEntry(d)
    \/ WriteWord
    \/ \E name \in Names : Finish(name)
    \/ Abandon
    \/ \E v \in VmIds : Fork(v)
    \/ \E v \in VmIds : DropVm(v)

SpecDict == InitDict /\ [][NextDict]_vars

----------------------------------------------------------------------------
\* Properties of the dictionaries (checked under SpecDict).

LiveDicts == {d \in DictIds : dicts[d].live}
LiveVms == {v \in VmIds : vmDict[v] \in DictIds}

\* The entries of one dictionary, from the pointer p back along the links.
RECURSIVE LocalFrom(_)
LocalFrom(p) == IF p = Null THEN <<>> ELSE <<p>> \o LocalFrom(Deref(p).link)

\* The entries of a dictionary most recent first, then its parent's, and so on.
RECURSIVE ChainEntries(_)
ChainEntries(d) ==
    LocalFrom(dicts[d].tail)
        \o (IF dicts[d].parent # 0 THEN ChainEntries(dicts[d].parent) ELSE <<>>)

\* The dictionaries of the parent chain of d, d excluded.
RECURSIVE Ancestors(_)
Ancestors(d) ==
    IF dicts[d].parent = 0 THEN {} ELSE {dicts[d].parent} \cup Ancestors(dicts[d].parent)

Range(f) == {f[i] : i \in DOMAIN f}

\* C5: an entry under construction is never reachable: while a builder is
\* in flight its slot is in no dictionary's entries, and every step of a
\* builder other than finish (build_entry, write_word, a failed write_word,
\* the drop of the builder) leaves every tail and the entries found from
\* every dictionary as they were.
C5_BuilderInvisible ==
    /\ [](builder # NoBuilder =>
            \A d \in DictIds : builder.base \notin Range(Entries(d))
                                /\ builder.base # dicts[d].tail)
    /\ [][((builder # NoBuilder \/ builder' # NoBuilder) /\ op' # "finish") =>
            \A d \in DictIds : /\ dicts'[d].tail = dicts[d].tail
                               /\ Entries(d)' = Entries(d)]_vars

\* C5 witness: a builder was dropped after a write_word in a dictionary that
\* holds an entry: the cursor is past the abandoned slot, the tail is the
\* old entry.
C5_Witness ==
    /\ builder = NoBuilder /\ op = "other"
    /\ \E d \in LiveDicts :
          /\ dicts[d].tail = ArenaStart(d)
          /\ dicts[d].cur = ArenaStart(d) + 2 * EntrySize
          /\ Cardinality(DOMAIN dicts[d].mem) = 1

\* C6: iterating a dictionary's entries yields its local entries most recent
\* first, then those of the parent, and so on, each once, whatever
\* dictionary of the chain is empty.
C6_EntriesWalkChain == \A d \in LiveDicts : Entries(d) = ChainEntries(d)

\* The resolution order of a name: the chain's entries, the async table, the
\* static table.
Resolve(d, name) ==
    LET hit == FirstNamed(ChainEntries(d), name) IN
    IF hit # Null THEN <<"dict", hit>>
    ELSE IF name \in AsyncBuiltins THEN <<"async", name>>
    ELSE IF name \in StaticBuiltins THEN <<"static", name>>
    ELSE <<"none", name>>

\* C7: name resolution returns the first hit among the local entries most
\* recent first, the parent chain, the async built-ins, the static built-ins.
C7_LookupOrder ==
    \A v \in LiveVms, name \in Names : Lookup(v, name) = Resolve(vmDict[v], name)

\* C8: every word defined in a dictionary that was shared by a fork is found
\* from every VM below it; what a VM finds lies in its own dictionary or in
\* its parent chain, and a local definition of a name is what the VM finds.
C8_ForkVisibility ==
    \A v \in LiveVms :
        LET d == vmDict[v] IN
        /\ \A p \in Ancestors(d) : \A e \in DOMAIN dicts[p].mem :
              FirstNamed(Entries(d), dicts[p].mem[e].name) # Null
        /\ \A e \in Range(Entries(d)) : DictOf(e) \in {d} \cup Ancestors(d)
        /\ \A e \in Range(LocalFrom(dicts[d].tail)) :
              DictOf(FirstNamed(Entries(d), Deref(e).name)) = d

\* C9: a dictionary whose count is not MUTABLE is never modified: no step
\* changes its tail, its cursor or its entries.
C9_SharedReadOnly ==
    [][\A d \in DictIds :
          (dicts[d].live /\ dicts[d].refs # MUTABLE) =>
              /\ dicts'[d].tail = dicts[d].tail
              /\ dicts'[d].cur = dicts[d].cur
              /\ dicts'[d].mem = dicts[d].mem]_vars

\* C9 witness: a shared dictionary holds an entry and a dictionary below it
\* was given an entry after the fork.
C9_Witness ==
    \E p \in LiveDicts, c \in LiveDicts :
        /\ dicts[p].refs # MUTABLE /\ dicts[p].tail # Null
        /\ dicts[c].parent = p /\ dicts[c].tail # Null

----------------------------------------------------------------------------
\* The reference count of one dictionary under clone and drop of its
\* handles, interleaved at the atomic operations (SpecRef).

\* Bound: the handles ever made for the dictionary.
MaxHandles == 5

HandleIds == 1..MaxHandles

\* SharedDict::MAX_REFCOUNT
MAX_REFCOUNT == MUTABLE - 1

\* (mutant) clone does not count the new handle
FetchAddNothing(n) == n

\* fetch_add / fetch_sub on the AtomicUsize wrap at its width.
FetchAdd(n) == (n + 1) % (2 ^ RefBits)
FetchSub(n) == (n - 1) % (2 ^ RefBits)

\* (mutant) every drop takes itself for the last
IsLastRefAlways(old) == TRUE

\* SharedDict::drop, line 371: fetch_sub returned 1.
IsLastRef(old) == old = 1

\* OwnedDict::into_shared: compare_exchange(MUTABLE, 1) and the first
\* SharedDict; the expect panics when the count was not MUTABLE.
IntoSharedRef(h) ==
    /\ UNCHANGED nonRefVars
    /\ hstate[h] = "owned"
    /\ refs = MUTABLE
    /\ refs' = 1
    /\ hstate' = [hstate EXCEPT ![h] = "live"]
    /\ UNCHANGED freed

\* SharedDict::clone through the live handle h: fetch_add(1), then the new
\* handle n; unreachable!() when the old count was MAX_REFCOUNT.
CloneRef(h, n) ==
    /\ UNCHANGED nonRefVars
    /\ hstate[h] = "live"
    /\ hstate[n] = "unused"
    /\ refs # MAX_REFCOUNT
    /\ refs' = FetchAdd(refs)
    /\ hstate' = [hstate EXCEPT ![n] = "live"]
    /\ UNCHANGED freed

\* SharedDict::drop, lines 371-373: fetch_sub(1); not the last: return.
DropRef(h) ==
    /\ UNCHANGED nonRefVars
    /\ hstate[h] = "live"
    /\ refs' = FetchSub(refs)
    /\ hstate' = [hstate EXCEPT ![h] = IF IsLastRef(refs) THEN "freeing" ELSE "dropped"]
    /\ UNCHANGED freed

\* SharedDict::drop, lines 403-407: the fence, then drop_slow: drop_dict.
DropSlow(h) ==
    /\ UNCHANGED nonRefVars
    /\ hstate[h] = "freeing"
    /\ freed' = freed + 1
    /\ hstate' = [hstate EXCEPT ![h] = "dropped"]
    /\ UNCHANGED refs

\* Dictionary::new and OwnedDict::new: the count is MUTABLE.
InitRef ==
    /\ VmFresh
    /\ DictUnused
    /\ BumpUnused
    /\ StackUnused
    /\ DiskUnused
    /\ refs = MUTABLE
    /\ hstate = [h \in HandleIds |-> IF h = 1 THEN "owned" ELSE "unused"]
    /\ freed = 0

NextRef ==
    \/ \E h \in HandleIds : IntoSharedRef(h)
    \/ \E h \in HandleIds, n \in HandleIds : CloneRef(h, n)
    \/ \E h \in HandleIds : DropRef(h)
    \/ \E h \in HandleIds : DropSlow(h)

SpecRef == InitRef /\ [][NextRef]_vars

\* C10: for every interleaving of clone and drop on the handles of one
\* dictionary, drop_dict is invoked at most once, only by the drop that took
\* the count from 1 to 0, never while a handle is live, and it has been
\* invoked once every handle is dropped.
C10_DropDictOnce ==
    /\ [](freed <= 1)
    /\ [](\A h \in HandleIds :
            (hstate[h] = "freeing" \/ freed > 0) =>
                (refs = 0 /\ \A g \in HandleIds : hstate[g] # "live"))
    /\ []((\A h \in HandleIds : hstate[h] \in {"unused", "dropped"}) => freed = 1)
    /\ [][freed' # freed =>
            /\ freed' = freed + 1
            /\ \E h \in HandleIds : hstate[h] = "freeing" /\ hstate'[h] = "dropped"]_vars
    /\ [][\A h \in HandleIds :
            (hstate[h] = "live" /\ hstate'[h] = "freeing") => (refs = 1 /\ refs' = 0)]_vars

\* C10 witness: handles were cloned and dropped in an order other than
\* their making, and the last drop invoked drop_dict.
C10_Witness ==
    /\ freed = 1
    /\ Cardinality({h \in HandleIds : hstate[h] = "dropped"}) >= 3
    /\ hstate[1] = "dropped"

\* The handles that hold a reference: made and not yet dropped.
LiveHandles == {h \in HandleIds : hstate[h] = "live"}

----------------------------------------------------------------------------
\* Destruction of the dictionaries of a chain (checked under SpecDict).

\* C12: when a dictionary that has a parent is destroyed the parent's count
\* is decremented by exactly one, and once every VM has been dropped
\* drop_dict has been invoked for every dictionary that was allocated.
C12_ParentReleased ==
    /\ [][\A d \in DictIds :
            (dicts[d].live /\ ~dicts'[d].live /\ dicts[d].parent # 0) =>
                dicts'[dicts[d].parent].refs = dicts[dicts[d].parent].refs - 1]_vars
    /\ []((\A v \in VmIds : vmDict[v] \notin DictIds) => LiveDicts = {})

\* C13: every linked entry's link is null or points to an entry linked
\* earlier at a strictly lower address of the same arena; a step that
\* changes a tail (finish, add_bi_fastr) links the new tail to the old one.
C13_LinksGoBack ==
    /\ [](\A d \in DictIds : \A e \in DOMAIN dicts[d].mem :
            LET link == dicts[d].mem[e].link IN
            link = Null \/ (link \in DOMAIN dicts[d].mem /\ link < e
                            /\ link >= ArenaStart(d) /\ e < ArenaEnd(d)))
    /\ [][\A d \in DictIds :
            dicts'[d].tail # dicts[d].tail =>
                /\ dicts'[d].tail \notin DOMAIN dicts[d].mem
                /\ dicts'[d].mem[dicts'[d].tail].link = dicts[d].tail]_vars

\* C13 witness: a dictionary holds an entry made by finish that links back
\* to an earlier entry.
C13_Witness ==
    \E d \in LiveDicts :
        /\ dicts[d].tail # Null
        /\ dicts[d].mem[dicts[d].tail].kind = "Dictionary"
        /\ dicts[d].mem[dicts[d].tail].link # Null

----------------------------------------------------------------------------
\* One bump arena under any sequence of allocations (SpecBump).

\* Bounds: the bytes of the arena, the calls made on it.
BumpCap == 12
MaxBumps == 4

\* The (alignment, size) of the types bump::<T> is called with: u8, u32 and
\* Word (a usize).
Types == {[align |-> 1, size |-> 1], [align |-> 4, size |-> 4],
          [align |-> WordSize, size |-> WordSize]}

\* The byte counts bump_u8s is called with: a usize, small or huge.
SizeInputs == {0, 1, 3, BumpCap + 1, (2 ^ AddrBits) - 1}

\* The addresses lo, lo+1, ... of n bytes.
Region(lo, n) == {a \in lo..(lo + n - 1) : TRUE}

\* The bytes bump zero-fills at the cursor: self.cur.write_bytes(0, offset).
PadBytes(cur, align) == Region(cur, AlignOffset(cur, align))

\* What a call leaves in bret.
Ret(fn, ok, err, ptr, size, align) ==
    [fn |-> fn, ok |-> ok, err |-> err, ptr |-> ptr, size |-> size,
     align |-> align, cur0 |-> bump.cur]

\* DictionaryBump::bump::<T>(): the padding is zeroed, then the capacity is
\* checked.
BumpT(t) ==
    /\ UNCHANGED nonBumpVars
    /\ calls < MaxBumps
    /\ LET b == Bump(bump.cur, bump.end, t.align, t.size) IN
          /\ bump' = [bump EXCEPT !.cur = b.cur]
          /\ zeroed' = zeroed \cup PadBytes(bump.cur, t.align)
          /\ handed' = IF b.ok THEN handed \cup {<<b.ptr, t.size>>} ELSE handed
          /\ bret' = Ret("bump", b.ok, IF b.ok THEN "none" ELSE "OutOfMemory",
                         b.ptr, t.size, t.align)
    /\ calls' = calls + 1
    /\ UNCHANGED stored

\* DictionaryBump::bump_write::<T>(val): bump, then the value is written.
BumpWrite(t) ==
    /\ UNCHANGED nonBumpVars
    /\ calls < MaxBumps
    /\ LET b == Bump(bump.cur, bump.end, t.align, t.size) IN
          /\ bump' = [bump EXCEPT !.cur = b.cur]
          /\ zeroed' = IF b.ok
                       THEN (zeroed \cup PadBytes(bump.cur, t.align)) \ Region(b.ptr, t.size)
                       ELSE zeroed \cup PadBytes(bump.cur, t.align)
          /\ handed' = IF b.ok THEN handed \cup {<<b.ptr, t.size>>} ELSE handed
          /\ bret' = Ret("bump_write", b.ok, IF b.ok THEN "none" ELSE "OutOfMemory",
                         b.ptr, t.size, t.align)
    /\ calls' = calls + 1
    /\ UNCHANGED stored

\* DictionaryBump::bump_u8
BumpU8 ==
    /\ UNCHANGED nonBumpVars
    /\ calls < MaxBumps
    /\ IF bump.cur >= bump.end
       THEN /\ bret' = Ret("bump_u8", FALSE, "None", Null, 1, 1)
            /\ UNCHANGED <<bump, handed>>
       ELSE /\ bump' = [bump EXCEPT !.cur = WrappingAdd(bump.cur, 1)]
            /\ handed' = handed \cup {<<bump.cur, 1>>}
            /\ bret' = Ret("bump_u8", TRUE, "none", bump.cur, 1, 1)
    /\ calls' = calls + 1
    /\ UNCHANGED <<zeroed, stored>>

\* DictionaryBump::bump_u8s(n)
BumpBytes(n) ==
    /\ UNCHANGED nonBumpVars
    /\ calls < MaxBumps
    /\ LET b == BumpU8s(bump.cur, bump.end, n) IN
          /\ bump' = [bump EXCEPT !.cur = b.cur]
          /\ handed' = IF b.ok THEN handed \cup {<<b.ptr, n>>} ELSE handed
          /\ bret' = Ret("bump_u8s", b.ok, IF b.ok THEN "none" ELSE "None", b.ptr, n, 1)
    /\ calls' = calls + 1
    /\ UNCHANGED <<zeroed, stored>>

\* The longest name bump_str stores: s.len().min(31).
NameMax == 31

Min(a, b) == IF a < b THEN a ELSE b

\* u8::is_ascii
IsAscii(byte) == byte < 128

\* (mutant) the bytes are stored as they came
ToAsciiLowercaseKept(byte) == byte

\* u8::to_ascii_lowercase
ToAsciiLowercase(byte) == IF byte \in 65..90 THEN byte + 32 ELSE byte

\* The names bump_str is called with on the small arena: empty, "a", "Ab"
\* and "e-acute" (two bytes of UTF-8).
ShortNames == {<<>>, <<97>>, <<65, 98>>, <<195, 169>>}

\* DictionaryBump::bump_str(s), at most max calls: the first 31 bytes are
\* checked for ASCII, allocated and written in lower case.  An empty s
\* panics at the debug_assert of a debug build; in a release build
\* bump_u8s(0) returns None.
BumpStr(s, max) ==
    /\ UNCHANGED nonBumpVars
    /\ calls < max
    /\ LET len == Min(Len(s), NameMax)
           astr == SubSeq(s, 1, len)
           b == BumpU8s(bump.cur, bump.end, len)
       IN  IF \E i \in 1..len : ~IsAscii(astr[i])
           THEN /\ bret' = ("arg" :> s) @@ Ret("bump_str", FALSE, "CantAllocUtf8", Null, len, 1)
                /\ UNCHANGED <<bump, zeroed, handed, stored>>
           ELSE IF ~b.ok
           THEN /\ \E e \in (IF s = <<>> THEN {"panic", "OutOfMemory"} ELSE {"OutOfMemory"}) :
                      bret' = ("arg" :> s) @@ Ret("bump_str", FALSE, e, Null, len, 1)
                /\ UNCHANGED <<bump, zeroed, handed, stored>>
           ELSE /\ bump' = [bump EXCEPT !.cur = b.cur]
                /\ handed' = handed \cup {<<b.ptr, len>>}
                /\ zeroed' = zeroed \ Region(b.ptr, len)
                /\ stored' = stored \cup
                      {[ptr |-> b.ptr, len |-> len, from |-> s,
                        bytes |-> [i \in 1..len |-> ToAsciiLowercase(astr[i])]]}
                /\ bret' = ("arg" :> s) @@ Ret("bump_str", TRUE, "none", b.ptr, len, 1)
    /\ calls' = calls + 1

\* DictionaryBump::new(bottom, size), on an allocation of size bytes.
NewBump(bottom, size) == [start |-> bottom, end |-> WrappingAdd(bottom, size), cur |-> bottom]

\* A fresh arena of size bytes and nothing done on it.
FreshArena(size) ==
    /\ VmFresh
    /\ DictUnused
    /\ RefUnused
    /\ StackUnused
    /\ DiskUnused
    /\ bump = NewBump(ArenaStart(1), size)
    /\ zeroed = {}
    /\ handed = {}
    /\ stored = {}
    /\ bret = Ret("new", TRUE, "none", Null, 0, 1)
    /\ calls = 0

InitBump == FreshArena(BumpCap)

NextBump ==
    \/ \E t \in Types : BumpT(t)
    \/ \E t \in Types : BumpWrite(t)
    \/ BumpU8
    \/ \E n \in SizeInputs : BumpBytes(n)
    \/ \E s \in ShortNames : BumpStr(s, MaxBumps)

SpecBump == InitBump /\ [][NextBump]_vars

----------------------------------------------------------------------------
\* Properties of the arena (checked under SpecBump).

\* A step that is a call of one of the allocation functions.
IsAlloc == calls' = calls + 1 /\ bret'.fn \in {"bump", "bump_write", "bump_u8", "bump_u8s"}

\* Two regions <<ptr, size>> share a byte.
Overlap(r1, r2) == r1[1] < r2[1] + r2[2] /\ r2[1] < r1[1] + r1[2]

\* C14: the cursor never decreases, across any sequence of bump,
\* bump_write, bump_u8, bump_u8s and bump_str calls, successful or failing.
C14_CursorMonotonic == [][bump'.cur >= bump.cur]_vars

\* C15: in every reachable state start <= cursor <= end, that is
\* used() <= capacity().
C15_CursorInArena == bump.start <= bump.cur /\ bump.cur <= bump.end

\* C16: an allocation of size bytes fails whenever cursor + size > end, a
\* failed allocation leaves the cursor unchanged, and a successful one
\* returns a region inside [start, end) that overlaps no region returned
\* before.
C16_AllocOrOutOfMemory ==
    [][IsAlloc =>
        LET r == bret' IN
        /\ (bump.cur + r.size > bump.end => ~r.ok)
        /\ (~r.ok => bump'.cur = bump.cur)
        /\ (r.ok => /\ bump.start <= r.ptr
                    /\ r.ptr + r.size <= bump.end
                    /\ \A h \in handed : ~Overlap(h, <<r.ptr, r.size>>))]_vars

\* C17: every pointer returned by bump::<T> is aligned to T's alignment
\* whatever the cursor was, and the padding bytes skipped are zero.
C17_AlignedZeroPadded ==
    (bret.fn \in {"bump", "bump_write"} /\ bret.ok) =>
        /\ bret.ptr % bret.align = 0
        /\ \A a \in bret.cur0..(bret.ptr - 1) : a \in zeroed

\* C17 witness: a Word was allocated from a cursor that byte-sized
\* allocations had left misaligned.
C17_Witness ==
    /\ bret.fn = "bump" /\ bret.ok /\ bret.align = WordSize
    /\ bret.cur0 % WordSize # 0
    /\ bret.ptr > bret.cur0

----------------------------------------------------------------------------
\* Names given to bump_str, up to and beyond 31 bytes (SpecStr).

\* Bounds: the bytes of the arena, the names given to bump_str.
StrCap == 64
MaxStrs == 2

\* n times the byte.
Rep(byte, n) == [i \in 1..n |-> byte]

\* The names: 'a' repeated to a length at, below and above the limit, with
\* at most one byte replaced by 'A' or by a non-ASCII byte, at the start, at
\* the limit or just past it.
StrLens == {1, NameMax, NameMax + 1, NameMax + 2}
StrSpots == {1, NameMax, NameMax + 1}
StrInputs ==
    UNION {{[Rep(97, len) EXCEPT ![p] = byte] :
                p \in {q \in StrSpots : q <= len}, byte \in {97, 65, 195}} :
           len \in StrLens}

InitStr == FreshArena(StrCap)

NextStr == \E s \in StrInputs : BumpStr(s, MaxStrs)

SpecStr == InitStr /\ [][NextStr]_vars

\* A step that is a call of bump_str.
IsBumpStr == calls' = calls + 1 /\ bret'.fn = "bump_str"

\* A name with its letters in lower case.
Lower(s) == [i \in 1..Len(s) |-> ToAsciiLowercase(s[i])]

\* C18: bump_str(s) fails with CantAllocUtf8, and allocates nothing,
\* whenever any byte of s is non-ASCII, wherever in s that byte is.
C18_NonAsciiRejected ==
    [][(IsBumpStr /\ \E i \in 1..Len(bret'.arg) : ~IsAscii(bret'.arg[i])) =>
            /\ ~bret'.ok /\ bret'.err = "CantAllocUtf8"
            /\ UNCHANGED <<bump, handed, stored>>]_vars

\* C19: every name stored by bump_str has between 1 and 31 bytes, all ASCII
\* and none an uppercase letter, so two spellings that differ only in letter
\* case are stored as identical names.
C19_StoredNamesLowerAscii ==
    /\ \A n \in stored :
          /\ n.len >= 1 /\ n.len <= NameMax /\ Len(n.bytes) = n.len
          /\ \A i \in 1..n.len : IsAscii(n.bytes[i]) /\ n.bytes[i] \notin 65..90
    /\ \A n1 \in stored, n2 \in stored :
          Lower(n1.from) = Lower(n2.from) => n1.bytes = n2.bytes

\* C19 witness: two spellings of a name that differ in letter case were
\* stored.
C19_Witness ==
    \E n1 \in stored, n2 \in stored :
        /\ n1.from # n2.from /\ Lower(n1.from) = Lower(n2.from)
        /\ n1.ptr # n2.ptr /\ n1.len = NameMax

\* C20: a name longer than 31 bytes is refused and nothing is stored for
\* it, so two different names that share their first 31 bytes are never
\* stored as the same name.
C20_LongNameRejected ==
    /\ [][(IsBumpStr /\ Len(bret'.arg) > NameMax) =>
            ~bret'.ok /\ UNCHANGED <<bump, handed, stored>>]_vars
    /\ [](\A n1 \in stored, n2 \in stored :
            Lower(n1.from) # Lower(n2.from) => n1.bytes # n2.bytes)

----------------------------------------------------------------------------
\* One stack (SpecStack): a fixed-capacity LIFO over a caller's buffer.

\* Bounds: the capacity of the stack and the cells told apart.
StackCap == 3
MaxCell == 2

Cells == 0..MaxCell

\* (mutant) a push onto a full stack makes room by dropping the bottom cell
StackPushDropsBottom(s, v) ==
    IF Len(s) >= StackCap
    THEN [res |-> "StackOverflow", stack |-> Append(Tail(s), v)]
    ELSE [res |-> "Ok", stack |-> Append(s, v)]

\* Stack::push: overflow is an explicit failure.
StackPush(s, v) ==
    IF Len(s) >= StackCap
    THEN [res |-> "StackOverflow", stack |-> s]
    ELSE [res |-> "Ok", stack |-> Append(s, v)]

\* Stack::pop: underflow is an explicit failure.
StackPop(s) ==
    IF s = <<>>
    THEN [res |-> "StackUnderflow", stack |-> s]
    ELSE [res |-> "Ok", stack |-> Pop(s)]

Push ==
    /\ UNCHANGED nonStackVars
    /\ \E v \in Cells :
          /\ stk' = StackPush(stk, v).stack
          /\ sret' = [fn |-> "push", arg |-> v, res |-> StackPush(stk, v).res]

PopCell ==
    /\ UNCHANGED nonStackVars
    /\ stk' = StackPop(stk).stack
    /\ sret' = [fn |-> "pop", arg |-> 0, res |-> StackPop(stk).res]

\* Stack::clear, as the error path of process_line calls it.
ClearStack ==
    /\ UNCHANGED nonStackVars
    /\ stk' = <<>>
    /\ sret' = [fn |-> "clear", arg |-> 0, res |-> "Ok"]

InitStack ==
    /\ VmFresh /\ DictUnused /\ RefUnused /\ BumpUnused /\ DiskUnused
    /\ stk = <<>>
    /\ sret = [fn |-> "new", arg |-> 0, res |-> "Ok"]

NextStack ==
    \/ Push
    \/ PopCell
    \/ ClearStack

SpecStack == InitStack /\ [][NextStack]_vars

----------------------------------------------------------------------------
\* The block cache (SpecDisk): Disk over a driver whose calls may fail
\* (src/src/disk.rs).

\* Bound: the page indices told apart.
MaxPage == 3

PageIds == 1..MaxPage

\* caches: [Cache; 2], and the two memory buffers they are given.
NumCaches == 2
Bufs == 1..NumCaches

\* A memory buffer filled with b' ' by Disk::new.
Blank == 0

\* PageState
EmptyPage == [st |-> "Empty", idx |-> 0]
Page(st, idx) == [st |-> st, idx |-> idx]

\* (mutant) a Dirty page is not taken to be the page asked for
IsPageNotDirty(c, idx) == c.page.st \in {"Buffer", "Clean"} /\ c.page.idx = idx

\* Cache::is_page
IsPage(c, idx) == c.page.st # "Empty" /\ c.page.idx = idx

\* (mutant) the active slot is never taken to hold the page asked for
MatchesFirstNever(cs, idx) == FALSE

\* Disk::matches_first
MatchesFirst(cs, idx) == IsPage(cs[1], idx)

\* Disk::active_buf
ActiveBuf(cs) == cs[1].buf

\* core::mem::swap(a, b)
Swap(cs) == <<cs[2], cs[1]>>

\* One call of the driver and whether it returned Ok.
DriverCall(call, idx, buf, ok) == [op |-> call, idx |-> idx, buf |-> buf, ok |-> ok]

\* (mutant) a Clean page is written back as well
NeedsWriteClean(page) == page.st \in {"Dirty", "Clean"}

\* make_space_for_idx, lines 173-180, and flush, lines 187-192: only a
\* Dirty page is written.
NeedsWrite(page) == page.st = "Dirty"

\* A driver that may fail at any call: within one operation its first
\* errorAfter calls return Ok and the next returns an error (as the
\* driver FakeDisk of the tests does); n: the calls made before this one.
OkAt(errorAfter, n) == n < errorAfter

\* An operation calls the driver at most twice (a write and a read, or a
\* write for each slot); a driver with this errorAfter does not fail in it.
MaxDriverCalls == NumCaches

\* (mutant) the error of the write-back is ignored
AfterWriteIgnored(wok) == "true"

\* make_space_for_idx, line 178: the `?` returns the driver's error; after
\* a write that returned Ok a read is needed.
AfterWrite(wok) == IF wok THEN "true" ELSE "err"

\* Disk::make_space_for_idx: the caches as it leaves them, the driver calls
\* it made, and what it returned ("true": a read is needed, "false", or
\* "err").
MakeSpaceForIdx(cs, idx, errorAfter) ==
    IF MatchesFirst(cs, idx)
    THEN [caches |-> cs, acts |-> <<>>, need |-> "false"]
    ELSE LET sw == Swap(cs)
             wok == OkAt(errorAfter, 0)
         IN
         IF IsPage(sw[1], idx)
         THEN [caches |-> sw, acts |-> <<>>, need |-> "false"]
         ELSE IF NeedsWrite(sw[1].page)
         THEN [caches |-> sw,
               acts |-> <<DriverCall("write", sw[1].page.idx, sw[1].buf, wok)>>,
               need |-> AfterWrite(wok)]
         ELSE [caches |-> sw, acts |-> <<>>, need |-> "true"]

\* What a call leaves and returns.
Outcome(idx, cs, mm, a, ok, buf) ==
    [idx |-> idx, caches |-> cs, mem |-> mm, acts |-> a, ok |-> ok, buf |-> buf]

\* Disk::block
BlockCall(cs, mm, idx, errorAfter) ==
    LET m == MakeSpaceForIdx(cs, idx, errorAfter)
        rok == OkAt(errorAfter, Len(m.acts))
    IN
    IF m.need = "err" THEN Outcome(idx, m.caches, mm, m.acts, FALSE, 0)
    ELSE IF m.need = "false"
    THEN Outcome(idx, m.caches, mm, m.acts, TRUE, ActiveBuf(m.caches))
    ELSE LET buf == ActiveBuf(m.caches)
             rd == DriverCall("read", idx, buf, rok)
         IN IF rok
            THEN Outcome(idx, [m.caches EXCEPT ![1].page = Page("Clean", idx)],
                         [mm EXCEPT ![buf] = idx], Append(m.acts, rd), TRUE, buf)
            ELSE Outcome(idx, m.caches, mm, Append(m.acts, rd), FALSE, 0)

\* Disk::buffer: no read; the memory is left as it is.
BufferCall(cs, mm, idx, errorAfter) ==
    LET m == MakeSpaceForIdx(cs, idx, errorAfter) IN
    IF m.need = "err" THEN Outcome(idx, m.caches, mm, m.acts, FALSE, 0)
    ELSE IF m.need = "false"
    THEN Outcome(idx, m.caches, mm, m.acts, TRUE, ActiveBuf(m.caches))
    ELSE Outcome(idx, [m.caches EXCEPT ![1].page = Page("Buffer", idx)],
                 mm, m.acts, TRUE, ActiveBuf(m.caches))

\* (mutant) flush keeps the pages, marking them Clean
FlushedClean(page) == IF page.st = "Empty" THEN EmptyPage ELSE Page("Clean", page.idx)

\* flush, line 193: c.page = PageState::Empty
Flushed(page) == EmptyPage

\* Disk::flush, one turn of its loop, for slot k; out: what the turns
\* before it left (not ok: one of them returned the driver's error).
FlushSlot(out, k, errorAfter) ==
    IF ~out.ok THEN out
    ELSE IF NeedsWrite(out.caches[k].page)
    THEN LET wok == OkAt(errorAfter, Len(out.acts))
             wr == DriverCall("write", out.caches[k].page.idx, out.caches[k].buf, wok)
         IN
         IF wok
         THEN [out EXCEPT !.caches[k].page = Flushed(@), !.acts = Append(@, wr)]
         ELSE [out EXCEPT !.acts = Append(@, wr), !.ok = FALSE]
    ELSE [out EXCEPT !.caches[k].page = Flushed(@)]

\* Disk::flush
FlushCall(cs, mm, errorAfter) ==
    FlushSlot(FlushSlot(Outcome(0, cs, mm, <<>>, TRUE, 0), 1, errorAfter), 2, errorAfter)

\* (mutant) an Empty page is marked Dirty as well
MarkDirtyPageAlways(page) == Page("Dirty", page.idx)

\* Disk::mark_dirty
MarkDirtyPage(page) ==
    IF page.st = "Empty" THEN EmptyPage ELSE Page("Dirty", page.idx)

\* The pages the slots hold.
Cached(cs) == {cs[k].page.idx : k \in {j \in 1..NumCaches : cs[j].page.st # "Empty"}}

\* The members of seq that are in S, in order.
RECURSIVE Keep(_, _)
Keep(seq, S) ==
    IF seq = <<>> THEN <<>>
    ELSE (IF Head(seq) \in S THEN <<Head(seq)>> ELSE <<>>) \o Keep(Tail(seq), S)

\* The pages written by the calls a with Ok.
Written(a) == {a[k].idx : k \in {j \in 1..Len(a) : a[j].op = "write" /\ a[j].ok}}

\* The history after a call: o: its outcome; sel: the pages it selected
\* (none or one); fresh: the pages it loaded or created.
History(o, sel, fresh) ==
    /\ recent' = Keep(Keep(<<o.idx>>, sel) \o Keep(recent, PageIds \ sel),
                      Cached(o.caches))
    /\ upd' = ((upd \ Written(o.acts)) \ fresh) \cap Cached(o.caches)
    /\ held' = (IF sel = {} THEN held ELSE o.idx)

\* The call fn left and returned o.
Returned(fn, o) ==
    /\ caches' = o.caches
    /\ mem' = o.mem
    /\ acts' = o.acts
    /\ dret' = [fn |-> fn, idx |-> o.idx, ok |-> o.ok, buf |-> o.buf]

\* idx is in neither slot.
Miss(cs, idx) == \A k \in 1..NumCaches : ~IsPage(cs[k], idx)

Block ==
    /\ UNCHANGED nonDiskVars
    /\ \E idx \in PageIds :
       \E errorAfter \in 0..Len(BlockCall(caches, mem, idx, MaxDriverCalls).acts) :
          LET o == BlockCall(caches, mem, idx, errorAfter) IN
          /\ Returned("block", o)
          /\ History(o, IF o.ok THEN {idx} ELSE {},
                        IF o.ok /\ Miss(caches, idx) THEN {idx} ELSE {})

Buffer ==
    /\ UNCHANGED nonDiskVars
    /\ \E idx \in PageIds :
       \E errorAfter \in 0..Len(BufferCall(caches, mem, idx, MaxDriverCalls).acts) :
          LET o == BufferCall(caches, mem, idx, errorAfter) IN
          /\ Returned("buffer", o)
          /\ History(o, IF o.ok THEN {idx} ELSE {},
                        IF o.ok /\ Miss(caches, idx) THEN {idx} ELSE {})

\* Disk::mark_dirty (the word update)
MarkDirty ==
    /\ UNCHANGED nonDiskVars
    /\ caches' = [caches EXCEPT ![1].page = MarkDirtyPage(@)]
    /\ acts' = <<>>
    /\ dret' = [fn |-> "update", idx |-> 0, ok |-> TRUE, buf |-> 0]
    /\ upd' = upd \cup (IF caches[1].page.st = "Empty" THEN {} ELSE {caches[1].page.idx})
    /\ UNCHANGED <<mem, recent, held>>

Flush ==
    /\ UNCHANGED nonDiskVars
    /\ \E errorAfter \in 0..Len(FlushCall(caches, mem, MaxDriverCalls).acts) :
          LET o == FlushCall(caches, mem, errorAfter) IN
          /\ Returned("flush", o)
          /\ History(o, {}, {})

\* Disk::empty_buffers
EmptyBuffers ==
    /\ UNCHANGED nonDiskVars
    /\ caches' = [k \in 1..NumCaches |-> [caches[k] EXCEPT !.page = EmptyPage]]
    /\ acts' = <<>>
    /\ dret' = [fn |-> "empty_buffers", idx |-> 0, ok |-> TRUE, buf |-> 0]
    /\ recent' = <<>>
    /\ upd' = {}
    /\ held' = 0
    /\ UNCHANGED <<mem>>

\* Disk::new
InitDisk ==
    /\ VmFresh /\ DictUnused /\ RefUnused /\ BumpUnused /\ StackUnused
    /\ caches = [k \in 1..NumCaches |-> [buf |-> k, page |-> EmptyPage]]
    /\ mem = [b \in Bufs |-> Blank]
    /\ acts = <<>>
    /\ dret = [fn |-> "new", idx |-> 0, ok |-> TRUE, buf |-> 0]
    /\ recent = <<>>
    /\ upd = {}
    /\ held = 0

NextDisk ==
    \/ Block
    \/ Buffer
    \/ MarkDirty
    \/ Flush
    \/ EmptyBuffers

SpecDisk == InitDisk /\ [][NextDisk]_vars

----------------------------------------------------------------------------
\* Properties of the block cache (checked under SpecDisk).

\* The step is a block or buffer call.
Opens == dret'.fn \in {"block", "buffer"}

\* The slot that has buffer b.
SlotOf(cs, b) == CHOOSE c \in {cs[k] : k \in 1..NumCaches} : c.buf = b

\* The positions of the driver's writes among the calls a.
WriteAt(a) == {k \in 1..Len(a) : a[k].op = "write"}

\* C27: when block(idx) or buffer(idx) misses, the driver's write is
\* called for the evicted slot (the slot the call makes active) if and only
\* if that slot is Dirty, once, with the evicted page's index and buffer,
\* and before any read; an evicted Empty, Buffer or Clean page causes no
\* write; a block call whose write-back returned Ok then reads idx.
C27_WriteBackIffDirty ==
    [][(Opens /\ Miss(caches, dret'.idx)) =>
          LET ev == SlotOf(caches, ActiveBuf(caches'))
              W == WriteAt(acts')
          IN /\ (W # {}) <=> (ev.page.st = "Dirty")
             /\ (W # {}) =>
                   /\ W = {1}
                   /\ acts'[1].idx = ev.page.idx /\ acts'[1].buf = ev.buf
             /\ \A k \in 1..Len(acts') : acts'[k].op = "read" =>
                   /\ k = Len(acts') /\ acts'[k].idx = dret'.idx
                   /\ \A w \in W : w < k /\ acts'[w].ok
             /\ (dret'.fn = "block" /\ \A w \in W : acts'[w].ok) =>
                   acts'[Len(acts')].op = "read"
    ]_vars

\* C27 witness: a block call missed, wrote the Dirty page it evicted and
\* then read the page asked for into the same buffer.
C27_Witness ==
    /\ dret.fn = "block" /\ dret.ok /\ Len(acts) = 2
    /\ acts[1].op = "write" /\ acts[2].op = "read"
    /\ acts[1].idx # acts[2].idx /\ acts[1].buf = acts[2].buf

\* C28: whatever calls came before, when a block or buffer call for a
\* third page succeeds while two pages are cached, the page that leaves the
\* cache is the one of the two that was selected least recently.
C28_EvictsOldest ==
    [][(Opens /\ dret'.ok /\ Miss(caches, dret'.idx)
          /\ caches[1].page.st # "Empty" /\ caches[2].page.st # "Empty") =>
          /\ Len(recent) = NumCaches
          /\ Cached(caches) \ Cached(caches') = {recent[Len(recent)]}
    ]_vars

\* C29: block(idx) or buffer(idx) for an idx held by either slot calls the
\* driver neither to read nor to write, returns the buffer of the slot that
\* holds idx, and leaves the page state of both slots, and the memory, as
\* they were.
C29_HitTouchesNothing ==
    [][(Opens /\ ~Miss(caches, dret'.idx)) =>
          /\ acts' = <<>>
          /\ dret'.ok
          /\ \E k \in 1..NumCaches :
                IsPage(caches[k], dret'.idx) /\ dret'.buf = caches[k].buf
          /\ \A b \in Bufs : SlotOf(caches', b).page = SlotOf(caches, b).page
          /\ mem' = mem
    ]_vars

\* C29 witness: a block call found its page Dirty in the cache (a miss
\* would have left it Clean), beside a page created by buffer.
C29_Witness ==
    /\ dret.fn = "block" /\ dret.ok /\ acts = <<>>
    /\ caches[1].page = Page("Dirty", dret.idx)
    /\ caches[2].page.st = "Buffer"
    /\ dret.buf = caches[1].buf

\* C30: the driver's write is called for page i only if update was called
\* while i was the active page, after i was last loaded or created and not
\* since i was last written or discarded; so a page that was opened and
\* never updated is never written.
C30_WriteOnlyUpdated ==
    [][\A k \in 1..Len(acts') : acts'[k].op = "write" => acts'[k].idx \in upd]_vars

\* C31: an update called after a block or buffer call marks the page that
\* call returned, the program's current block, Dirty, also when a flush came
\* in between; and a successful flush, and a successful call that evicts
\* it, write every page that was Dirty.
C31_UpdatePersists ==
    /\ [][(dret'.fn = "update" /\ held # 0) =>
            \E k \in 1..NumCaches : caches'[k].page = Page("Dirty", held)]_vars
    /\ [][(dret'.fn \in {"flush", "block", "buffer"} /\ dret'.ok) =>
            \A k \in 1..NumCaches :
                (caches[k].page.st = "Dirty"
                   /\ Page("Dirty", caches[k].page.idx) \notin
                         {caches'[j].page : j \in 1..NumCaches})
                => caches[k].page.idx \in Written(acts')]_vars

\* C32: a flush that returns Ok calls the driver's write once for each slot
\* that was Dirty, with that slot's index and buffer, in the order of the
\* slots, calls the driver for nothing else, and leaves both slots Empty.
C32_FlushWritesDirty ==
    [][(dret'.fn = "flush" /\ dret'.ok) =>
          /\ acts' = Keep([k \in 1..NumCaches |->
                             DriverCall("write", caches[k].page.idx, caches[k].buf, TRUE)],
                          {DriverCall("write", caches[k].page.idx, caches[k].buf, TRUE) :
                             k \in {j \in 1..NumCaches : caches[j].page.st = "Dirty"}})
          /\ \A k \in 1..NumCaches : caches'[k].page = EmptyPage
          /\ \A k \in 1..NumCaches : caches'[k].buf = caches[k].buf
    ]_vars

\* C32 witness: a flush wrote both slots, each Dirty, and left them Empty.
C32_Witness ==
    /\ dret.fn = "flush" /\ dret.ok /\ Len(acts) = NumCaches
    /\ acts[1].idx # acts[2].idx /\ acts[1].buf # acts[2].buf
    /\ \A k \in 1..NumCaches : caches[k].page = EmptyPage

\* C33: buffer(idx) for an idx that is not cached, when it returns Ok, has
\* called no driver read, has marked the active slot Buffer(idx), and
\* returns the active slot's buffer, whose memory is blank.
C33_BufferIsBlank ==
    [][(dret'.fn = "buffer" /\ dret'.ok /\ Miss(caches, dret'.idx)) =>
          /\ \A k \in 1..Len(acts') : acts'[k].op # "read"
          /\ caches'[1].page = Page("Buffer", dret'.idx)
          /\ dret'.buf = caches'[1].buf
          /\ mem'[dret'.buf] = Blank
    ]_vars

\* C34: mark_dirty changes the active slot only: Buffer(i), Clean(i) and
\* Dirty(i) become Dirty(i), Empty stays Empty, no error is returned, the
\* driver is not called, and the inactive slot, the order of the slots and
\* the memory stay as they were.
C34_MarkDirtyActiveOnly ==
    [][dret'.fn = "update" =>
          /\ caches'[1].buf = caches[1].buf
          /\ caches'[1].page =
                (IF caches[1].page.st = "Empty" THEN EmptyPage
                 ELSE Page("Dirty", caches[1].page.idx))
          /\ caches'[2] = caches[2]
          /\ dret'.ok /\ acts' = <<>> /\ mem' = mem
    ]_vars

\* C34 witness: update made the active page Dirty beside a page that
\* stayed Clean.
C34_Witness ==
    /\ dret.fn = "update"
    /\ caches[1].page.st = "Dirty" /\ caches[2].page.st = "Clean"
    /\ upd = {caches[1].page.idx}

\* C35: a block or buffer call that fails with a driver error leaves the
\* cache as it was before the call: the same slot active, both page states
\* unchanged.
C35_FailureKeepsCache == [][(Opens /\ ~dret'.ok) => caches' = caches]_vars

\* C36: a slot in state Dirty(i) leaves that state only in a step in which
\* a driver write of page i returned Ok, or by empty_buffers.
C36_DirtyLeavesByWrite ==
    [][\A b \in Bufs :
          (SlotOf(caches, b).page.st = "Dirty"
             /\ SlotOf(caches', b).page # SlotOf(caches, b).page)
          => \/ dret'.fn = "empty_buffers"
             \/ SlotOf(caches, b).page.idx \in Written(acts')
    ]_vars

\* C36 witness: the write-back of a Dirty page failed and the page is
\* still Dirty.
C36_Witness ==
    /\ dret.fn \in {"block", "buffer"} /\ ~dret.ok
    /\ Len(acts) = 1 /\ acts[1].op = "write" /\ ~acts[1].ok
    /\ caches[1].page = Page("Dirty", acts[1].idx)

\* C37: the two slots never hold the same page: if both are not Empty,
\* their indices differ.
C37_SlotsDiffer ==
    (caches[1].page.st # "Empty" /\ caches[2].page.st # "Empty")
        => caches[1].page.idx # caches[2].page.idx

\* C37 witness: both slots hold a page, and the page of the active slot was
\* asked for again.
C37_Witness ==
    /\ caches[1].page.st = "Dirty" /\ caches[2].page.st = "Dirty"
    /\ dret.fn = "buffer" /\ dret.ok /\ acts = <<>>
    /\ dret.idx = caches[1].page.idx


\* ---------------------------------------------------------------------
\* The frame popped after Ok (SpecVM)
\* ---------------------------------------------------------------------

\* C38: in a step whose handler returned Ok, exactly one frame leaves the
\* call stack and it is the frame that was dispatched, the top frame at the
\* start of the step, whatever the handler did to the call stack.
C38_OkPopsDispatched ==
    [][Ran("Ok") => (cstack # <<>> /\ cstack' = Pop(cstack))]_vars

\* ---------------------------------------------------------------------
\* The bytes bump writes (SpecBump)
\* ---------------------------------------------------------------------

\* C39: the padding bytes that bump::<T> zeroes lie inside [start, end),
\* whether the call then succeeds or fails with OutOfMemory.
C39_PaddingInsideArena ==
    [][(bret'.fn \in {"bump", "bump_write"}) =>
          \A a \in PadBytes(bump.cur, bret'.align) :
              bump.start <= a /\ a < bump.end]_vars

\* ---------------------------------------------------------------------
\* The bitwise words (vm/builtins/bitops.rs)
\* ---------------------------------------------------------------------

\* The width of a cell's integer, scaled down from the 32 bits of i32.
WordBits == 4

\* The cells below the two operands: how many, at most.
MaxBelow == 1

\* The values of a cell read as a signed integer.
Ints == (0 - 2 ^ (WordBits - 1))..(2 ^ (WordBits - 1) - 1)

\* Two's complement: the bit pattern of a signed value and back.
ToUnsigned(x) == x % (2 ^ WordBits)

ToSigned(u) == IF u >= 2 ^ (WordBits - 1) THEN u - 2 ^ WordBits ELSE u

\* One bit of &, | and ^.
BitOf(word, p, q) ==
    CASE word = "bitand" -> p * q
      [] word = "bitor"  -> (p + q) - (p * q)
      [] word = "bitxor" -> (p + q) % 2

\* The operator applied to the lowest n bits of the patterns x and y.
RECURSIVE Bitwise(_, _, _, _)
Bitwise(word, x, y, n) ==
    IF n = 0 THEN 0
    ELSE BitOf(word, x % 2, y % 2) + 2 * Bitwise(word, x \div 2, y \div 2, n - 1)

\* a.data & b.data, a.data | b.data, a.data ^ b.data
Logic(word, a, b) == ToSigned(Bitwise(word, ToUnsigned(a), ToUnsigned(b), WordBits))

\* b << n and b >> n on a signed integer, for a count within the width:
\* the bits shifted out on the left are lost; the right shift keeps the sign.
Shl(b, n) == ToSigned((ToUnsigned(b) * (2 ^ n)) % (2 ^ WordBits))

Shr(b, n) == b \div (2 ^ n)

Shift(word, b, n) == IF word = "bitshl" THEN Shl(b, n) ELSE Shr(b, n)

\* What the expression of a word comes to: a value, or a panic.
Value(v) == [panic |-> FALSE, val |-> v]

Panic == [panic |-> TRUE, val |-> 0]

\* A count the shift operators of Rust accept without overflow.
InWidth(n) == n \in 0..(WordBits - 1)

\* b.data << a.data and b.data >> a.data.  A count that is negative or
\* not less than the width is an overflow: a build with overflow checks
\* panics, a build without them masks the count to the width.
Shifted(word, b, a) ==
    IF InWidth(a) THEN {Value(Shift(word, b, a))}
    ELSE {Panic, Value(Shift(word, b, a % WordBits))}

LogicWords == {"bitand", "bitor", "bitxor"}
ShiftWords == {"bitshl", "bitshr"}
BitWords == LogicWords \cup ShiftWords

\* What the word computes from a (popped first) and b (popped second).
Computed(word, a, b) ==
    IF word \in LogicWords THEN {Value(Logic(word, a, b))} ELSE Shifted(word, b, a)

\* The body the five words share: try_pop a, try_pop b, compute, push.
\* Each `?` returns the error with the stack as the pops left it.
BinaryWord(word) ==
    /\ UNCHANGED nonStackVars
    /\ LET p1 == StackPop(stk)
           p2 == StackPop(p1.stack)
       IN  IF p1.res # "Ok"
           THEN /\ stk' = p1.stack
                /\ sret' = [fn |-> word, arg |-> 0, res |-> p1.res]
           ELSE IF p2.res # "Ok"
           THEN /\ stk' = p2.stack
                /\ sret' = [fn |-> word, arg |-> 0, res |-> p2.res]
           ELSE \E out \in Computed(word, Top(stk), Top(p1.stack)) :
                   IF out.panic
                   THEN /\ stk' = p2.stack
                        /\ sret' = [fn |-> word, arg |-> 0, res |-> "panic"]
                   ELSE /\ stk' = StackPush(p2.stack, out.val).stack
                        /\ sret' = [fn |-> word, arg |-> 0,
                                    res |-> StackPush(p2.stack, out.val).res]

Bitand == BinaryWord("bitand")
Bitor  == BinaryWord("bitor")
Bitxor == BinaryWord("bitxor")
Bitshl == BinaryWord("bitshl")
Bitshr == BinaryWord("bitshr")

\* A data stack of up to two operands above up to MaxBelow other cells.
InitBits ==
    /\ VmFresh /\ DictUnused /\ RefUnused /\ BumpUnused /\ DiskUnused
    /\ \E below \in SeqsUpTo(Cells, MaxBelow) : \E top \in SeqsUpTo(Ints, 2) :
          stk = below \o top
    /\ sret = [fn |-> "new", arg |-> 0, res |-> "Ok"]

NextBits ==
    \/ Bitand
    \/ Bitor
    \/ Bitxor
    \/ Bitshl
    \/ Bitshr

SpecBits == InitBits /\ [][NextBits]_vars

\* C40: with two cells or more on the data stack a bitwise word returns Ok
\* and replaces the top two cells by one result, the cells below staying as
\* they were; and, or and xor give the same result for either order of the
\* operands; a shift whose count (the top cell) is within the width gives
\* the second cell shifted by it.  With fewer than two cells the word
\* returns a stack error and no cell is pushed.
C40_BitWords ==
    [][(sret'.fn \in BitWords) =>
          LET n == Len(stk) IN
          IF n >= 2
          THEN /\ sret'.res = "Ok"
               /\ Len(stk') = n - 1
               /\ SubSeq(stk', 1, n - 2) = SubSeq(stk, 1, n - 2)
               /\ (sret'.fn \in LogicWords) =>
                     /\ stk'[n - 1] = Logic(sret'.fn, stk[n], stk[n - 1])
                     /\ stk'[n - 1] = Logic(sret'.fn, stk[n - 1], stk[n])
               /\ (sret'.fn \in ShiftWords /\ InWidth(stk[n])) =>
                     (stk'[n - 1] = Shift(sret'.fn, stk[n - 1], stk[n]))
          ELSE /\ sret'.res = "StackUnderflow"
               /\ Len(stk') <= n
               /\ stk' = SubSeq(stk, 1, Len(stk'))
      ]_vars

====
